---- MODULE Spec2Model ----
(***************************************************************************)
(* Model of the cloth simulation in src/code.py: PointMass (Verlet         *)
(* integration, distance constraints, boundary clamp), Curtain (grid       *)
(* construction, update pipeline, mouse interaction) and the frame loop of *)
(* main().                                                                 *)
(*                                                                         *)
(* Numbers.  Python floats are modelled as fixed-point numbers: a          *)
(* coordinate v stands for v / SCALE pixels, math.sqrt and every division  *)
(* round to the nearest representable value.  Rational program constants   *)
(* are kept as exact fractions (GRAVITY = GRAVITY_X10 / 10, STIFFNESS =    *)
(* STIFFNESS_X10 / 10, dt in tenths of a second).                          *)
(***************************************************************************)
EXTENDS Integers, Sequences, FiniteSets, TLC

VARIABLES
    pc,                 \* position of main(): new, sample, update, clamp, interact, render, done
    points,             \* Curtain.points: sequence of PointMass records
    width, height,      \* Curtain.width, Curtain.height
    resting_distance,   \* Curtain.resting_distance (pixels)
    start_y,            \* argument of create_points (pixels)
    dt,                 \* frame time, tenths of a second
    left_click, right_click, mouse_pos,   \* inputs sampled at frame start
    running,            \* main()'s loop flag
    frame,              \* number of completed frames
    before,             \* history: points before the last operation
    frame_start,        \* history: points when the frame's inputs were sampled
    torn,               \* history: indices of points an interaction has torn
    passes              \* number of solve_constraints passes run on the pair (SpecRelax)

vars == <<pc, points, width, height, resting_distance, start_y, dt, left_click,
          right_click, mouse_pos, running, frame, before, frame_start, torn, passes>>

(***************************** bounds *************************************)
SCALE == 10            \* representable values per pixel
MaxFrames == 2         \* frames of main()'s loop that are explored
MaxWidth == 1          \* largest Curtain width (columns - 1)
MaxHeight == 1         \* largest Curtain height (rows - 1)
ScreenW == 40          \* screen_width passed to apply_constraints (pixels)
ScreenH == 40          \* screen_height passed to apply_constraints (pixels)
MaxPasses == 3         \* passes explored on a single constraint (SpecRelax)
MaxOffset == 6         \* offsets of the pair are the cubes of -MaxOffset..MaxOffset (SpecRelax)

(************************** program constants *****************************)
STIFFNESS_X10 == 5           \* STIFFNESS = 0.5
MOUSE_INFLUENCE_SIZE == 20
MOUSE_TEAR_SIZE == 8
GRAVITY_X10 == 98            \* GRAVITY = 9.8
RELAX_PASSES == 5            \* range(5) in Curtain.update

(***************************** arithmetic *********************************)
Min(a, b) == IF b < a THEN b ELSE a
Max(a, b) == IF b > a THEN b ELSE a

\* a / b rounded to the nearest integer (b > 0), ties away from zero
RoundDiv(a, b) ==
    IF a >= 0 THEN (2 * a + b) \div (2 * b)
              ELSE -((2 * (-a) + b) \div (2 * b))

RECURSIVE SqrtFloor(_, _, _)
\* largest r in lo..hi with r * r <= n  (lo * lo <= n is assumed)
SqrtFloor(n, lo, hi) ==
    IF lo >= hi THEN lo
    ELSE LET mid == (lo + hi + 1) \div 2
         IN  IF mid * mid <= n THEN SqrtFloor(n, mid, hi)
                               ELSE SqrtFloor(n, lo, mid - 1)

\* math.sqrt: the square root rounded to the nearest representable value
Sqrt(n) ==
    LET r == SqrtFloor(n, 0, Min(n, 46340))
    IN  IF n - r * r > r THEN r + 1 ELSE r

\* GRAVITY * dt * dt, for dt = k / 10 seconds
GravityStep(k) == RoundDiv(GRAVITY_X10 * k * k * SCALE, 1000)

(****************************** PointMass *********************************)
\* PointMass.__init__
PointMass(x, y, fixed) ==
    [x |-> x, y |-> y, prev_x |-> x, prev_y |-> y, fixed |-> fixed,
     connections |-> <<>>]

\* PointMass.update(dt)
PointUpdate(p, k) ==
    IF ~p.fixed
    THEN LET velocity_x == p.x - p.prev_x
             velocity_y == p.y - p.prev_y
         IN  [p EXCEPT !.prev_x = p.x, !.prev_y = p.y,
                       !.x = p.x + velocity_x,
                       !.y = p.y + velocity_y + GravityStep(k)]
    ELSE p

\* mutant: the clamp has no upper bound
ApplyConstraintNoUpper(p, w, h) == [p EXCEPT !.x = Max(0, p.x), !.y = Max(0, p.y)]

\* mutant: the clamp leaves fixed points alone
ApplyConstraintSkipsFixed(p, w, h) ==
    IF p.fixed THEN p
    ELSE [p EXCEPT !.x = Max(0, Min(w * SCALE, p.x)),
                   !.y = Max(0, Min(h * SCALE, p.y))]

\* PointMass.apply_constraint(width, height), bounds in pixels
ApplyConstraint(p, w, h) ==
    [p EXCEPT !.x = Max(0, Min(w * SCALE, p.x)),
              !.y = Max(0, Min(h * SCALE, p.y))]

\* PointMass.attach_to(other, resting_distance, stiffness)
AttachTo(p, other, rd, stiffness) ==
    [p EXCEPT !.connections =
        Append(@, [other |-> other, resting_distance |-> rd, stiffness |-> stiffness])]

\* mutant: the correction is applied with the wrong sign
SolveLinkWrongSign(pts, i, c) ==
    LET o == c.other
        dx == pts[o].x - pts[i].x
        dy == pts[o].y - pts[i].y
        distance == Sqrt(dx * dx + dy * dy)
        cx == RoundDiv((c.resting_distance - distance) * c.stiffness * dx, distance * 20)
        cy == RoundDiv((c.resting_distance - distance) * c.stiffness * dy, distance * 20)
        p1 == IF ~pts[i].fixed
              THEN [pts EXCEPT ![i].x = @ + cx, ![i].y = @ + cy]
              ELSE pts
    IN  IF distance = 0 THEN pts
        ELSE IF ~p1[o].fixed
             THEN [p1 EXCEPT ![o].x = @ - cx, ![o].y = @ - cy]
             ELSE p1

\* mutant: the other endpoint is moved without looking at its fixed flag
SolveLinkMovesFixedOther(pts, i, c) ==
    LET o == c.other
        dx == pts[o].x - pts[i].x
        dy == pts[o].y - pts[i].y
        distance == Sqrt(dx * dx + dy * dy)
        cx == RoundDiv((c.resting_distance - distance) * c.stiffness * dx, distance * 20)
        cy == RoundDiv((c.resting_distance - distance) * c.stiffness * dy, distance * 20)
        p1 == IF ~pts[i].fixed
              THEN [pts EXCEPT ![i].x = @ - cx, ![i].y = @ - cy]
              ELSE pts
    IN  IF distance = 0 THEN pts
        ELSE [p1 EXCEPT ![o].x = @ + cx, ![o].y = @ + cy]

\* one iteration of the loop of PointMass.solve_constraints: the link c of point i
SolveLink(pts, i, c) ==
    LET o == c.other
        dx == pts[o].x - pts[i].x
        dy == pts[o].y - pts[i].y
        distance == Sqrt(dx * dx + dy * dy)
        \* correction * dx = (resting_distance - distance) / distance * 0.5 * stiffness * dx
        cx == RoundDiv((c.resting_distance - distance) * c.stiffness * dx, distance * 20)
        cy == RoundDiv((c.resting_distance - distance) * c.stiffness * dy, distance * 20)
        p1 == IF ~pts[i].fixed
              THEN [pts EXCEPT ![i].x = @ - cx, ![i].y = @ - cy]
              ELSE pts
    IN  IF distance = 0 THEN pts
        ELSE IF ~p1[o].fixed
             THEN [p1 EXCEPT ![o].x = @ + cx, ![o].y = @ + cy]
             ELSE p1

RECURSIVE SolveFrom(_, _, _)
\* the links n, n+1, ... of point i, in order, each on the positions the previous left
SolveFrom(pts, i, n) ==
    IF n > Len(pts[i].connections) THEN pts
    ELSE SolveFrom(SolveLink(pts, i, pts[i].connections[n]), i, n + 1)

\* PointMass.solve_constraints() of point i
SolveConstraints(pts, i) == SolveFrom(pts, i, 1)

(******************************* Curtain **********************************)
\* Python's self.points[k] for a negative k, as a 1-based index into pts
NegIndex(pts, k) == Len(pts) + k + 1

RECURSIVE CreateFromTopFirst(_, _, _, _, _, _, _)
\* mutant: the link to the top neighbour is attached before the link to the left one
CreateFromTopFirst(pts, w, h, sy, rd, y, x) ==
    IF y > h THEN pts
    ELSE IF x > w THEN CreateFromTopFirst(pts, w, h, sy, rd, y + 1, 0)
    ELSE LET appended == Append(pts, PointMass(x * rd * SCALE, (sy + y * rd) * SCALE, y = 0))
             n == Len(appended)
             top == IF y > 0
                    THEN [appended EXCEPT ![n] =
                            AttachTo(@, Len(appended) - (w + 1), rd * SCALE, STIFFNESS_X10)]
                    ELSE appended
             left == IF x > 0
                     THEN [top EXCEPT ![n] =
                             AttachTo(@, Len(top) - 1, rd * SCALE, STIFFNESS_X10)]
                     ELSE top
         IN  CreateFromTopFirst(left, w, h, sy, rd, y, x + 1)

RECURSIVE CreateFrom(_, _, _, _, _, _, _)
\* the loops of Curtain.create_points from row y, column x on
CreateFrom(pts, w, h, sy, rd, y, x) ==
    IF y > h THEN pts
    ELSE IF x > w THEN CreateFrom(pts, w, h, sy, rd, y + 1, 0)
    ELSE LET pos_x == x * rd * SCALE
             pos_y == (sy + y * rd) * SCALE
             fixed == (y = 0)
             appended == Append(pts, PointMass(pos_x, pos_y, fixed))
             n == Len(appended)
             left == IF x > 0
                     THEN [appended EXCEPT ![n] =
                             AttachTo(@, NegIndex(appended, -2), rd * SCALE, STIFFNESS_X10)]
                     ELSE appended
             top == IF y > 0
                    THEN [left EXCEPT ![n] =
                            AttachTo(@, NegIndex(left, -(w + 2)), rd * SCALE, STIFFNESS_X10)]
                    ELSE left
         IN  CreateFrom(top, w, h, sy, rd, y, x + 1)

\* Curtain.create_points(start_y) on an empty list of points
CreatePoints(w, h, sy, rd) == CreateFrom(<<>>, w, h, sy, rd, 0, 0)

\* first loop of Curtain.update: every point integrated once
IntegrateAll(pts, k) == [i \in 1..Len(pts) |-> PointUpdate(pts[i], k)]

RECURSIVE RelaxFrom(_, _)
\* inner loop of Curtain.update: solve_constraints of the points i, i+1, ... in order
RelaxFrom(pts, i) ==
    IF i > Len(pts) THEN pts ELSE RelaxFrom(SolveConstraints(pts, i), i + 1)

\* one full relaxation pass over all points
RelaxPass(pts) == RelaxFrom(pts, 1)

RECURSIVE Relax(_, _)
\* n relaxation passes
Relax(pts, n) == IF n = 0 THEN pts ELSE Relax(RelaxPass(pts), n - 1)

\* mutant: one relaxation pass too few
CurtainUpdateFourPasses(pts, k) == Relax(IntegrateAll(pts, k), RELAX_PASSES - 1)

\* Curtain.update(dt)
CurtainUpdate(pts, k) == Relax(IntegrateAll(pts, k), RELAX_PASSES)

\* Curtain.apply_constraints(screen_width, screen_height)
ApplyConstraints(pts, w, h) == [i \in 1..Len(pts) |-> ApplyConstraint(pts[i], w, h)]

\* squared distance of a point to the pointer, as interact_with_mouse computes it
MouseDistance(p, mp) ==
    LET dx == p.x - mp[1] * SCALE
        dy == p.y - mp[2] * SCALE
    IN  dx * dx + dy * dy

\* mutant: tearing spares fixed points, as dragging does
InteractPointSparesFixed(p, mp, left, right) ==
    LET distance == MouseDistance(p, mp)
        dragged == IF left /\ distance < (MOUSE_INFLUENCE_SIZE * SCALE) * (MOUSE_INFLUENCE_SIZE * SCALE)
                      /\ ~p.fixed
                   THEN [p EXCEPT !.x = mp[1] * SCALE, !.y = mp[2] * SCALE]
                   ELSE p
    IN  IF right /\ distance < (MOUSE_TEAR_SIZE * SCALE) * (MOUSE_TEAR_SIZE * SCALE) /\ ~p.fixed
        THEN [dragged EXCEPT !.connections = <<>>]
        ELSE dragged

\* mutant: the tear check is an elif of the drag check
InteractPointTearElif(p, mp, left, right) ==
    LET distance == MouseDistance(p, mp)
    IN  IF left /\ distance < (MOUSE_INFLUENCE_SIZE * SCALE) * (MOUSE_INFLUENCE_SIZE * SCALE)
        THEN IF ~p.fixed THEN [p EXCEPT !.x = mp[1] * SCALE, !.y = mp[2] * SCALE] ELSE p
        ELSE IF right /\ distance < (MOUSE_TEAR_SIZE * SCALE) * (MOUSE_TEAR_SIZE * SCALE)
             THEN [p EXCEPT !.connections = <<>>]
             ELSE p

\* mutant: the tear check measures the distance again, after the drag has moved the point
InteractPointTearAfterSnap(p, mp, left, right) ==
    LET distance == MouseDistance(p, mp)
        dragged == IF left /\ distance < (MOUSE_INFLUENCE_SIZE * SCALE) * (MOUSE_INFLUENCE_SIZE * SCALE)
                      /\ ~p.fixed
                   THEN [p EXCEPT !.x = mp[1] * SCALE, !.y = mp[2] * SCALE]
                   ELSE p
    IN  IF right /\ MouseDistance(dragged, mp) < (MOUSE_TEAR_SIZE * SCALE) * (MOUSE_TEAR_SIZE * SCALE)
        THEN [dragged EXCEPT !.connections = <<>>]
        ELSE dragged

\* body of the loop of Curtain.interact_with_mouse for one point
InteractPoint(p, mp, left, right) ==
    LET distance == MouseDistance(p, mp)
        dragged == IF left /\ distance < (MOUSE_INFLUENCE_SIZE * SCALE) * (MOUSE_INFLUENCE_SIZE * SCALE)
                      /\ ~p.fixed
                   THEN [p EXCEPT !.x = mp[1] * SCALE, !.y = mp[2] * SCALE]
                   ELSE p
    IN  IF right /\ distance < (MOUSE_TEAR_SIZE * SCALE) * (MOUSE_TEAR_SIZE * SCALE)
        THEN [dragged EXCEPT !.connections = <<>>]
        ELSE dragged

\* Curtain.interact_with_mouse(mouse_pos, left_click, right_click)
InteractWithMouse(pts, mp, left, right) ==
    [i \in 1..Len(pts) |-> InteractPoint(pts[i], mp, left, right)]

\* the points whose connections one interact_with_mouse call clears
TornBy(pts, mp, right) ==
    {i \in 1..Len(pts) :
        right /\ MouseDistance(pts[i], mp) < (MOUSE_TEAR_SIZE * SCALE) * (MOUSE_TEAR_SIZE * SCALE)}

(****************************** inputs ************************************)
Widths == (0 - 1)..MaxWidth
Heights == (0 - 1)..MaxHeight
\* <<start_y, resting_distance>>: RESTING_DISTANCE from the top of the screen and from
\* START_Y, and a resting distance that is not positive
Placements == {<<0, 10>>, <<50, 10>>, <<0, 0>>}
DtTenths == {10}               \* dt = 1.0 s
MousePositions == {<<12, 3>>, <<0, 14>>, <<5, 12>>}   \* pixels, inside the screen

(****************************** main() ************************************)
\* Curtain(width, height, start_y, resting_distance)
Construct(w, h, sy, rd) ==
    /\ pc = "new"
    /\ width' = w
    /\ height' = h
    /\ resting_distance' = rd
    /\ start_y' = sy
    /\ points' = CreatePoints(w, h, sy, rd)
    /\ before' = <<>>
    /\ frame_start' = CreatePoints(w, h, sy, rd)
    /\ pc' = "sample"
    /\ UNCHANGED <<dt, left_click, right_click, mouse_pos, running, frame, torn, passes>>

\* top of the loop: clock.tick, mouse.get_pressed, mouse.get_pos, the event queue
Sample(k, left, right, mp, quit) ==
    /\ pc = "sample"
    /\ running
    /\ frame < MaxFrames
    /\ dt' = k
    /\ left_click' = left
    /\ right_click' = right
    /\ mouse_pos' = mp
    /\ running' = ~quit
    /\ frame_start' = points
    /\ pc' = "update"
    /\ UNCHANGED <<points, width, height, resting_distance, start_y, frame, before, torn, passes>>

\* curtain.update(dt)
Update ==
    /\ pc = "update"
    /\ before' = points
    /\ points' = CurtainUpdate(points, dt)
    /\ pc' = "clamp"
    /\ UNCHANGED <<width, height, resting_distance, start_y, dt, left_click, right_click,
                   mouse_pos, running, frame, frame_start, torn, passes>>

\* curtain.apply_constraints(SCREEN_WIDTH, SCREEN_HEIGHT)
Clamp ==
    /\ pc = "clamp"
    /\ before' = points
    /\ points' = ApplyConstraints(points, ScreenW, ScreenH)
    /\ pc' = "interact"
    /\ UNCHANGED <<width, height, resting_distance, start_y, dt, left_click, right_click,
                   mouse_pos, running, frame, frame_start, torn, passes>>

\* curtain.interact_with_mouse(mouse_pos, left_click, right_click)
Interact ==
    /\ pc = "interact"
    /\ before' = points
    /\ points' = InteractWithMouse(points, mouse_pos, left_click, right_click)
    /\ torn' = torn \cup TornBy(points, mouse_pos, right_click)
    /\ pc' = "render"
    /\ UNCHANGED <<width, height, resting_distance, start_y, dt, left_click, right_click,
                   mouse_pos, running, frame, frame_start, passes>>

\* rendering, then back to the loop condition
Render ==
    /\ pc = "render"
    /\ frame' = frame + 1
    /\ pc' = IF running THEN "sample" ELSE "done"
    /\ UNCHANGED <<points, width, height, resting_distance, start_y, dt, left_click,
                   right_click, mouse_pos, running, before, frame_start, torn, passes>>

Init ==
    /\ pc = "new"
    /\ points = <<>>
    /\ width = 0
    /\ height = 0
    /\ resting_distance = 0
    /\ start_y = 0
    /\ dt = 0
    /\ left_click = FALSE
    /\ right_click = FALSE
    /\ mouse_pos = <<0, 0>>
    /\ running = TRUE
    /\ frame = 0
    /\ before = <<>>
    /\ frame_start = <<>>
    /\ torn = {}
    /\ passes = 0

Next ==
    \/ \E w \in Widths, h \in Heights, pl \in Placements :
          Construct(w, h, pl[1], pl[2])
    \/ \E k \in DtTenths, left \in BOOLEAN, right \in BOOLEAN, mp \in MousePositions,
          quit \in BOOLEAN :
          Sample(k, left, right, mp, quit)
    \/ Update
    \/ Clamp
    \/ Interact
    \/ Render

Spec == Init /\ [][Next]_vars

(********************* a single constraint between two points *************)
\* offsets (in representable units) of the second point from the first
PairOffsets(r) ==
    {k * k * k : k \in (0 - MaxOffset)..MaxOffset} \cup {r - 1, r, r + 1}
RestLengths == {SCALE, 10 * SCALE}     \* 1 pixel and RESTING_DISTANCE
Stiffnesses == {1, 5, 10}              \* 0.1, STIFFNESS and 1.0

\* two free points, the first attached to the second
Pair(dx, dy, r, st) ==
    << AttachTo(PointMass(0, 0, FALSE), 2, r, st), PointMass(dx, dy, FALSE) >>

InitRelax ==
    /\ pc = "pair"
    /\ \E r \in RestLengths, st \in Stiffnesses :
          \E dx \in PairOffsets(r), dy \in PairOffsets(r) :
              /\ <<dx, dy>> # <<0, 0>>
              /\ points = Pair(dx, dy, r, st)
              /\ before = Pair(dx, dy, r, st)
    /\ width = 0
    /\ height = 0
    /\ resting_distance = 0
    /\ start_y = 0
    /\ dt = 0
    /\ left_click = FALSE
    /\ right_click = FALSE
    /\ mouse_pos = <<0, 0>>
    /\ running = TRUE
    /\ frame = 0
    /\ frame_start = <<>>
    /\ torn = {}
    /\ passes = 0

\* points[0].solve_constraints()
SolvePass ==
    /\ pc = "pair"
    /\ passes < MaxPasses
    /\ before' = points
    /\ points' = SolveConstraints(points, 1)
    /\ passes' = passes + 1
    /\ UNCHANGED <<pc, width, height, resting_distance, start_y, dt, left_click, right_click,
                   mouse_pos, running, frame, frame_start, torn>>

NextRelax == SolvePass

SpecRelax == InitRelax /\ [][NextRelax]_vars

(************************* notions used by the claims **********************)
Pos(p) == <<p.x, p.y>>
Pointer == <<mouse_pos[1] * SCALE, mouse_pos[2] * SCALE>>
InBounds(p) == 0 <= p.x /\ p.x <= ScreenW * SCALE /\ 0 <= p.y /\ p.y <= ScreenH * SCALE
Clamped(p) ==
    << IF p.x < 0 THEN 0 ELSE IF p.x > ScreenW * SCALE THEN ScreenW * SCALE ELSE p.x,
       IF p.y < 0 THEN 0 ELSE IF p.y > ScreenH * SCALE THEN ScreenH * SCALE ELSE p.y >>

RECURSIVE UpdateStepsFrom(_, _)
\* the point lists Curtain.update goes through after integration: before the first
\* solve_constraints call and after each of the RELAX_PASSES * Len(pts) calls, n done so far
UpdateStepsFrom(pts, n) ==
    IF n >= RELAX_PASSES * Len(pts) THEN <<pts>>
    ELSE <<pts>> \o UpdateStepsFrom(SolveConstraints(pts, (n % Len(pts)) + 1), n + 1)

UpdateSteps(pts, k) == UpdateStepsFrom(IntegrateAll(pts, k), 0)

(* C1: fixed-point invariance.  PointMass.update leaves a fixed point where it is; no
   solve_constraints call made by Curtain.update moves a fixed point, be it the owner
   of the link or its other endpoint; so after a whole Curtain.update every fixed
   point is where it was before the call. *)
C1_FixedPointInvariance ==
    /\ \A i \in 1..Len(points) : points[i].fixed =>
           \A k \in DtTenths : Pos(PointUpdate(points[i], k)) = Pos(points[i])
    /\ pc = "update" =>
           LET steps == UpdateSteps(points, dt)
           IN  \A n \in 1..Len(steps) : \A i \in 1..Len(points) :
                   points[i].fixed => Pos(steps[n][i]) = Pos(points[i])
    /\ pc = "clamp" =>
           \A i \in 1..Len(points) : before[i].fixed => Pos(points[i]) = Pos(before[i])

\* Curtain.update has run on a grid where relaxation moved a free point linked to a fixed one
C1_Witness ==
    /\ pc = "clamp"
    /\ \E j \in 1..Len(points) : \E n \in 1..Len(before[j].connections) :
          /\ ~before[j].fixed
          /\ before[before[j].connections[n].other].fixed
          /\ Pos(points[j]) # Pos(IntegrateAll(before, dt)[j])

(* C2 as stated: boundary clamping never modifies the position of a fixed point. *)
C2_FixedNeverClamped ==
    pc = "interact" =>
        \A i \in 1..Len(points) : before[i].fixed => Pos(points[i]) = Pos(before[i])

(* C2 as amended: apply_constraints clamps a fixed point like any other point: its
   position afterwards is the clamped one, and it is unchanged exactly when the point
   was already inside the bounds. *)
C2_FixedClampedLikeAny ==
    pc = "interact" =>
        \A i \in 1..Len(points) : before[i].fixed =>
            /\ Pos(points[i]) = Clamped(before[i])
            /\ (Pos(points[i]) = Pos(before[i])) <=> InBounds(before[i])

\* apply_constraints has moved a fixed point that was outside the bounds
C2_Witness ==
    /\ pc = "interact"
    /\ \E i \in 1..Len(points) :
          before[i].fixed /\ ~InBounds(before[i]) /\ Pos(points[i]) # Pos(before[i])

\* the links create_points gives the i-th point of a (width+1)-column grid: left, then top
Row(i) == (i - 1) \div (width + 1)
Col(i) == (i - 1) % (width + 1)
ExpectedLinks(i) ==
    (IF Col(i) > 0
     THEN << [other |-> i - 1, resting_distance |-> resting_distance * SCALE,
              stiffness |-> STIFFNESS_X10] >>
     ELSE << >>)
    \o
    (IF Row(i) > 0
     THEN << [other |-> i - (width + 1), resting_distance |-> resting_distance * SCALE,
              stiffness |-> STIFFNESS_X10] >>
     ELSE << >>)

\* the points that still hold a link to point i
LinkedFrom(pts, i) ==
    {j \in 1..Len(pts) : \E n \in 1..Len(pts[j].connections) : pts[j].connections[n].other = i}

(* C3: tear irreversibility.  A point that interact_with_mouse has torn has an empty
   connections list in every later state; solve_constraints on it changes nothing;
   PointMass.update still integrates it (when it is not fixed) and the boundary clamp
   still clamps it. *)
C3_TearIrreversible ==
    \A i \in torn :
        /\ points[i].connections = << >>
        /\ SolveConstraints(points, i) = points
        /\ pc = "update" =>
              SolveConstraints(IntegrateAll(points, dt), i) = IntegrateAll(points, dt)
        /\ ~points[i].fixed =>
              \A k \in DtTenths :
                  LET q == PointUpdate(points[i], k)
                  IN  /\ q.x = 2 * points[i].x - points[i].prev_x
                      /\ q.y = 2 * points[i].y - points[i].prev_y + GravityStep(k)
                      /\ q.prev_x = points[i].x /\ q.prev_y = points[i].y
        /\ (pc = "clamp" /\ ~points[i].fixed) =>
              points[i].prev_x = before[i].x /\ points[i].prev_y = before[i].y
        /\ pc = "interact" => Pos(points[i]) = Clamped(before[i])

\* a free point that had links was torn in an earlier frame and has since been moved by
\* update and gone through the clamp
C3_Witness ==
    /\ pc = "interact"
    /\ frame >= 1
    /\ \E i \in torn :
          /\ ~points[i].fixed
          /\ ExpectedLinks(i) # << >>
          /\ Pos(points[i]) # Pos(frame_start[i])

(* C4 as stated: after a point has been torn no relaxation pass of Curtain.update
   changes its position: Curtain.update leaves it where integration alone puts it. *)
C4_TornPointIsolated ==
    pc = "clamp" =>
        \A i \in torn : Pos(points[i]) = Pos(IntegrateAll(before, dt)[i])

(* C4 as amended: tearing clears only the point's own links.  A torn point is left by
   Curtain.update where integration alone puts it when no other point still holds a
   link to it; links held by its right and lower neighbours keep moving it. *)
C4_TornPointFollowsOnlyIncomingLinks ==
    pc = "clamp" =>
        \A i \in torn :
            LinkedFrom(before, i) = {} => Pos(points[i]) = Pos(IntegrateAll(before, dt)[i])

\* a free torn point that a neighbour used to link to, the neighbour torn as well, has been integrated
C4_Witness ==
    /\ pc = "clamp"
    /\ \E i \in torn :
          /\ ~points[i].fixed
          /\ LinkedFrom(before, i) = {}
          /\ \E j \in torn : \E n \in 1..Len(ExpectedLinks(j)) : ExpectedLinks(j)[n].other = i
          /\ Pos(points[i]) # Pos(before[i])

(* C5: grid structure.  For width >= 0 and height >= 0 construction yields exactly
   (width+1)*(height+1) points in row-major order, exactly row 0 fixed, each point
   linked to its left neighbour (when col > 0) and then to its top neighbour (when
   row > 0) with the grid's resting distance and the global stiffness, and to nothing
   else.  Afterwards the number of points and the fixed flags never change and each
   link list is the constructed one or empty. *)
C5_GridStructure ==
    (pc # "new" /\ width >= 0 /\ height >= 0) =>
        /\ Len(points) = (width + 1) * (height + 1)
        /\ \A i \in 1..Len(points) :
              /\ points[i].fixed <=> (Row(i) = 0)
              /\ points[i].connections = ExpectedLinks(i) \/ points[i].connections = << >>
              /\ i \notin torn => points[i].connections = ExpectedLinks(i)
              /\ (pc = "sample" /\ frame = 0) =>
                    /\ points[i].x = Col(i) * resting_distance * SCALE
                    /\ points[i].y = (start_y + Row(i) * resting_distance) * SCALE
                    /\ points[i].prev_x = points[i].x
                    /\ points[i].prev_y = points[i].y
                    /\ points[i].connections = ExpectedLinks(i)

\* a 2 x 2 grid after a frame in which one point was torn and another kept both its links
C5_Witness ==
    /\ pc = "render"
    /\ width = 1 /\ height = 1
    /\ \E i \in 1..Len(points) : ExpectedLinks(i) # << >> /\ points[i].connections = << >>
    /\ \E i \in 1..Len(points) : Len(points[i].connections) = 2

(* C6: pipeline order.  Each frame integrates every point once, runs exactly 5 full
   relaxation passes, clamps every point and only then applies the pointer; so at the
   end of a frame with drag active every free point that was, after integration,
   relaxation and clamping, within MOUSE_INFLUENCE_SIZE of the pointer is exactly at
   the pointer. *)
C6_PipelineOrder ==
    pc = "render" =>
        LET integrated == IntegrateAll(frame_start, dt)
            relaxed == RelaxPass(RelaxPass(RelaxPass(RelaxPass(RelaxPass(integrated)))))
            clamped == [i \in 1..Len(relaxed) |->
                          [relaxed[i] EXCEPT !.x = Clamped(relaxed[i])[1],
                                             !.y = Clamped(relaxed[i])[2]]]
        IN  /\ before = clamped
            /\ \A i \in 1..Len(points) :
                  /\ points[i].prev_x = integrated[i].prev_x
                  /\ points[i].prev_y = integrated[i].prev_y
                  /\ (left_click /\ ~clamped[i].fixed
                        /\ MouseDistance(clamped[i], mouse_pos)
                             < (MOUSE_INFLUENCE_SIZE * SCALE) * (MOUSE_INFLUENCE_SIZE * SCALE))
                     => Pos(points[i]) = Pointer

\* a frame ends in which the drag overrode what integration and relaxation had done to a point
C6_Witness ==
    /\ pc = "render"
    /\ left_click
    /\ \E i \in 1..Len(points) :
          /\ ~points[i].fixed
          /\ Pos(before[i]) # Pos(frame_start[i])
          /\ Pos(before[i]) # Pointer
          /\ Pos(points[i]) = Pointer
          /\ RelaxPass(IntegrateAll(frame_start, dt)) # IntegrateAll(frame_start, dt)

(* C7: construction with a non-positive resting distance, or a zero or negative width
   or height, ends in a configuration error and never returns a grid. *)
C7_MisconfigurationFailsFast ==
    pc # "new" => (resting_distance > 0 /\ width > 0 /\ height > 0)

(* C8: classification of a point by one interact_with_mouse call, with d2 its squared
   distance to the pointer before the call: it is at the pointer afterwards when
   left_click, d2 < MOUSE_INFLUENCE_SIZE^2 and it is not fixed, and where it was
   otherwise; its links are cleared when right_click and d2 < MOUSE_TEAR_SIZE^2,
   fixed or not, and untouched otherwise; both happen together when both hold. *)
C8_DragTearClassification ==
    pc = "render" =>
        \A i \in 1..Len(points) :
            LET d2 == MouseDistance(before[i], mouse_pos)
                drag == left_click /\ ~before[i].fixed
                          /\ d2 < (MOUSE_INFLUENCE_SIZE * SCALE) * (MOUSE_INFLUENCE_SIZE * SCALE)
                tear == right_click /\ d2 < (MOUSE_TEAR_SIZE * SCALE) * (MOUSE_TEAR_SIZE * SCALE)
            IN  /\ Pos(points[i]) = IF drag THEN Pointer ELSE Pos(before[i])
                /\ points[i].connections = IF tear THEN << >> ELSE before[i].connections
                /\ points[i].prev_x = before[i].prev_x
                /\ points[i].prev_y = before[i].prev_y
                /\ points[i].fixed = before[i].fixed

\* one call both snapped a linked free point to the pointer and cleared its links,
\* cleared a fixed point's links, and dragged another point without tearing it
C8_Witness ==
    /\ pc = "render"
    /\ left_click /\ right_click
    /\ \E i \in 1..Len(points) :
          /\ ~points[i].fixed
          /\ before[i].connections # << >>
          /\ Pos(before[i]) # Pointer
          /\ Pos(points[i]) = Pointer
          /\ points[i].connections = << >>
    /\ \E i \in 1..Len(points) :
          /\ ~points[i].fixed
          /\ Pos(before[i]) # Pointer
          /\ Pos(points[i]) = Pointer
          /\ points[i].connections # << >>

(* C10: at the end of every frame every point, fixed or not, torn or not, lies inside
   the screen bounds (the pointer is inside them). *)
C10_InBoundsAtFrameEnd ==
    pc = "render" => \A i \in 1..Len(points) : InBounds(points[i])

\* a frame ends after Curtain.update had left a free point and a fixed point outside the bounds
C10_Witness ==
    /\ pc = "render"
    /\ \E i \in 1..Len(points) :
          ~points[i].fixed /\ ~InBounds(CurtainUpdate(frame_start, dt)[i])
    /\ \E i \in 1..Len(points) :
          points[i].fixed /\ ~InBounds(CurtainUpdate(frame_start, dt)[i])

Abs(a) == IF a < 0 THEN -a ELSE a

\* distance of the pair as solve_constraints computes it, and its error
PairDistance(pts) ==
    Sqrt((pts[2].x - pts[1].x) * (pts[2].x - pts[1].x)
         + (pts[2].y - pts[1].y) * (pts[2].y - pts[1].y))
PairError(pts) == Abs(PairDistance(pts) - pts[1].connections[1].resting_distance)

(* C9 as stated: for two free, non-coincident points joined by one constraint a
   solve_constraints pass never increases |distance - r| and strictly decreases it
   whenever distance # r. *)
C9_StrictDecreaseAlways ==
    (pc = "pair" /\ passes > 0) =>
        /\ PairError(points) <= PairError(before)
        /\ PairError(before) # 0 => PairError(points) < PairError(before)

(* C9 as amended: a solve_constraints pass never increases |distance - r|, and
   strictly decreases it whenever it exceeds a fixed tolerance, two units of the
   coordinates' resolution divided by the stiffness; below the tolerance the
   correction can round to nothing and the distance stays as it is. *)
C9_DecreaseUntilTolerance ==
    (pc = "pair" /\ passes > 0) =>
        /\ PairError(points) <= PairError(before)
        /\ PairError(before) * before[1].connections[1].stiffness > 2 * 10
              => PairError(points) < PairError(before)

\* a pass on a pair off both axes and beyond the tolerance has shrunk the error without ending it
C9_Witness ==
    /\ pc = "pair"
    /\ passes > 0
    /\ before[2].x # before[1].x /\ before[2].y # before[1].y
    /\ PairError(before) * before[1].connections[1].stiffness > 2 * 10
    /\ 0 < PairError(points)
    /\ PairError(points) < PairError(before)

====
